---- MODULE Spec2Model ----
(***************************************************************************)
(* A model of the combined AWS mock server                                 *)
(* (src/Proxies/aws-mock-server/aws_mock_server_combined.py).              *)
(*                                                                         *)
(* Part 1: the database instance orchestrator (the RDS handlers, the       *)
(* allocated-port set and the persisted instance registry).                *)
(* Part 2: the object store engine (buckets and objects on the file tree). *)
(*                                                                         *)
(* Requests are served by one asyncio event loop: a handler runs without   *)
(* interruption between two awaits.  The RDS handlers contain no await, so *)
(* each of them is one atomic step; what interleaves is the arrival of     *)
(* requests (root_post awaits request.form()) and the order in which the   *)
(* handlers of the requests in flight run.                                 *)
(***************************************************************************)
EXTENDS Integers, Sequences, FiniteSets, Bags, TLC

VARIABLES
    rds_instances,      \* the rds_instances table: id -> record (persisted)
    active_rds_ports,   \* the in-memory set of busy ports
    docker_client,      \* TRUE iff a container engine answered at startup
    inflight,           \* client -> the RDS request it has sent and not yet got an answer to
    response,           \* the last response the RDS handlers produced
    handled,            \* history: the request that response answers
    assigned_port,      \* history: id -> port reported by its successful Provision
    deleted_ids,        \* history: ids deleted and not provisioned again since
    freed_ports,        \* history: ports of instances deleted in this process lifetime
    failed_ids,         \* history: ids whose latest Provision failed in container creation
    survivors,          \* history: the instances that were there at the last startup
    dirs,               \* the directories of the file system (absolute paths)
    files,              \* the regular files of the file system: path -> content
    putting,            \* client -> the put object that awaits its request body
    s3resp,             \* the response to s3last, NoS3Resp while it is being served
    s3list,             \* the listing in the response to s3last, NoListing when it has none
    s3last,             \* history: the storage request taken up last (its key, or its prefix)
    last_body,          \* history: the body of the latest successful put of TrackedKey
                        \* into TrackedBucket, "" when none or deleted since
    inf_pc,             \* client -> where its inference request stands
    inf_req,            \* client -> the body, handler and backend endpoint of its inference request
    inf_resp,           \* client -> the response to its latest inference request
    inf_calls,          \* history: client -> backend calls made for its latest request
    inf_sent,           \* history: client -> responses sent for its latest request
    http_req,           \* history: the HTTP request the router took up last
    http_route          \* history: the handler the router gave it to

rdsVars == <<rds_instances, active_rds_ports, docker_client, inflight, response,
             handled, assigned_port, deleted_ids, freed_ports, failed_ids, survivors>>

s3Vars == <<dirs, files, putting, s3resp, s3list, s3last, last_body>>

infVars == <<inf_pc, inf_req, inf_resp, inf_calls, inf_sent>>

httpVars == <<http_req, http_route>>

vars == <<rdsVars, s3Vars, infVars, httpVars>>

----------------------------------------------------------------------------
(* Bounds *)

NClients == 2
MaxPorts == 3

Clients == 1..NClients

(* Program constants *)

DEFAULT_RDS_PORT_START == 5433

RDS_ENGINE_MAP == {"postgres", "mysql"}

(* Inputs *)

DBIds == {"db1", "db2"}
EngineInputs == {"postgres", "oracle"}
DefaultUser == "postgres"
DefaultDBName == "mydb"

NoId == ""

\* A POST / whose body is not form-encoded or has no Action field.
NoAction == ""

----------------------------------------------------------------------------
(* Requests and responses *)

NoReq == [action |-> "none", id |-> NoId, engine |-> ""]

RdsRequests ==
    [action : {"CreateDBInstance"}, id : DBIds, engine : EngineInputs]
    \cup [action : {"DescribeDBInstances"}, id : DBIds \cup {NoId}, engine : {""}]
    \cup [action : {"DeleteDBInstance"}, id : DBIds, engine : {""}]
    \cup [action : {"RebootDBInstance"}, id : {NoId}, engine : {""}]
    \cup [action : {NoAction}, id : {NoId}, engine : {""}]

CreateRequests == {r \in RdsRequests : r.action = "CreateDBInstance"}

NoResp == [status |-> 0, code |-> "", instances |-> {}]

ErrorResponse(status, code) == [status |-> status, code |-> code, instances |-> {}]

\* The <DBInstance> element of a response.
InstanceXml(id, engine, status, port) ==
    [id |-> id, engine |-> engine, status |-> status, port |-> port]

\* A row of the rds_instances table.
DBInstance(id, engine, port, local_path) ==
    [id |-> id, engine |-> engine, master_username |-> DefaultUser,
     db_name |-> DefaultDBName, port |-> port, status |-> "available",
     local_path |-> local_path]

----------------------------------------------------------------------------
(* get_free_rds_port: probe upwards from the base, mark the port busy. *)

RECURSIVE ProbePort(_, _)
ProbePort(port, active) ==
    IF port \in active THEN ProbePort(port + 1, active) ELSE port

get_free_rds_port_noadd(active) ==
    [port |-> ProbePort(DEFAULT_RDS_PORT_START, active), active |-> active]

get_free_rds_port_noprobe(active) ==
    [port |-> DEFAULT_RDS_PORT_START,
     active |-> active \cup {DEFAULT_RDS_PORT_START}]

\* Variant: the port above the highest busy port is taken.
get_free_rds_port_abovemax(active) ==
    LET port == IF active = {} THEN DEFAULT_RDS_PORT_START
                ELSE 1 + CHOOSE p \in active : \A q \in active : q <= p
    IN  [port |-> port, active |-> active \cup {port}]

get_free_rds_port(active) ==
    LET port == ProbePort(DEFAULT_RDS_PORT_START, active)
    IN  [port |-> port, active |-> active \cup {port}]

\* Variant: the port set starts empty at every startup.
PortsOfRegistry_none(reg) == {}

\* The rehydration of active_rds_ports at module import.
PortsOfRegistry(reg) == {reg[i].port : i \in {j \in DOMAIN reg : reg[j].port # 0}}

Without(f, x) == [y \in DOMAIN f \ {x} |-> f[y]]

----------------------------------------------------------------------------
(* The RDS handlers.  Each is a function of the request, the state it reads *)
(* and the outcome of the external calls it makes (container engine, file   *)
(* system, metadata commit); it yields the new state and the response.      *)

\* local_path of a new record: None with a container engine, else the path
\* of the SQLite file, or "memory" when the file could not be created.
LocalPath(id, docker, fileOk) ==
    IF docker THEN "None" ELSE IF fileOk THEN "VectrRDS/" \o id \o ".sqlite" ELSE "memory"

\* Variant: the port is allocated before the existence check.
handle_rds_create_db_instance_allocfirst(req, reg, active, docker, containerOk, fileOk, commitOk) ==
    LET a == get_free_rds_port(active)
    IN  IF req.id \in DOMAIN reg
        THEN [reg |-> reg, active |-> a.active,
              resp |-> ErrorResponse(400, "DBInstanceAlreadyExists")]
        ELSE IF (docker /\ (req.engine \notin RDS_ENGINE_MAP \/ ~containerOk)) \/ ~commitOk
        THEN [reg |-> reg, active |-> a.active, resp |-> ErrorResponse(500, "InternalFailure")]
        ELSE [reg |-> (req.id :> DBInstance(req.id, req.engine, a.port,
                                            LocalPath(req.id, docker, fileOk))) @@ reg,
              active |-> a.active,
              resp |-> [status |-> 200, code |-> "CreateDBInstanceResponse",
                        instances |-> {InstanceXml(req.id, req.engine, "available", a.port)}]]

\* Variant: the record is saved before the container is started.
handle_rds_create_db_instance_savefirst(req, reg, active, docker, containerOk, fileOk, commitOk) ==
    LET r == handle_rds_create_db_instance_allocfirst(req, reg, active, docker, TRUE,
                                                      fileOk, commitOk)
    IN  IF req.id \notin DOMAIN reg /\ docker /\ req.engine \in RDS_ENGINE_MAP /\ ~containerOk
        THEN [reg |-> r.reg, active |-> r.active,
              resp |-> ErrorResponse(500, "InternalFailure")]
        ELSE r

handle_rds_create_db_instance(req, reg, active, docker, containerOk, fileOk, commitOk) ==
    IF req.id \in DOMAIN reg
    THEN [reg |-> reg, active |-> active,
          resp |-> ErrorResponse(400, "DBInstanceAlreadyExists")]
    ELSE LET a == get_free_rds_port(active)
         IN  IF docker /\ req.engine \notin RDS_ENGINE_MAP
             THEN [reg |-> reg, active |-> a.active,
                   resp |-> ErrorResponse(400, "InvalidParameterValue")]
             ELSE IF docker /\ ~containerOk
             THEN [reg |-> reg, active |-> a.active,
                   resp |-> ErrorResponse(500, "InternalFailure")]
             ELSE IF ~commitOk
             THEN [reg |-> reg, active |-> a.active,
                   resp |-> ErrorResponse(500, "InternalError")]
             ELSE [reg |-> (req.id :> DBInstance(req.id, req.engine, a.port,
                                                 LocalPath(req.id, docker, fileOk))) @@ reg,
                   active |-> a.active,
                   resp |-> [status |-> 200, code |-> "CreateDBInstanceResponse",
                             instances |-> {InstanceXml(req.id, req.engine, "available", a.port)}]]

\* Variant: an absent id yields an empty listing instead of an error.
handle_rds_describe_db_instances_nofail(req, reg) ==
    [status |-> 200, code |-> "DescribeDBInstancesResponse",
     instances |-> {InstanceXml(i, reg[i].engine, reg[i].status, reg[i].port) :
                       i \in {j \in DOMAIN reg : req.id = NoId \/ j = req.id}}]

handle_rds_describe_db_instances(req, reg) ==
    IF req.id # NoId
    THEN IF req.id \in DOMAIN reg
         THEN [status |-> 200, code |-> "DescribeDBInstancesResponse",
               instances |-> {InstanceXml(req.id, reg[req.id].engine,
                                          reg[req.id].status, reg[req.id].port)}]
         ELSE ErrorResponse(404, "DBInstanceNotFound")
    ELSE [status |-> 200, code |-> "DescribeDBInstancesResponse",
          instances |-> {InstanceXml(i, reg[i].engine, reg[i].status, reg[i].port) :
                            i \in DOMAIN reg}]

\* Variant: a Delete that fails has already released the instance's port.
handle_rds_delete_db_instance_release(req, reg, active, docker, containerOk, commitOk) ==
    IF req.id \notin DOMAIN reg
    THEN [reg |-> reg, active |-> active,
          resp |-> ErrorResponse(404, "DBInstanceNotFound")]
    ELSE IF (docker /\ ~containerOk) \/ ~commitOk
    THEN [reg |-> reg, active |-> active \ {reg[req.id].port},
          resp |-> ErrorResponse(500, "InternalError")]
    ELSE [reg |-> Without(reg, req.id), active |-> active,
          resp |-> [status |-> 200, code |-> "DeleteDBInstanceResponse",
                    instances |-> {InstanceXml(req.id, "", "deleted", 0)}]]

\* Variant: the record is kept and marked deleted.
handle_rds_delete_db_instance_soft(req, reg, active, docker, containerOk, commitOk) ==
    IF req.id \notin DOMAIN reg
    THEN [reg |-> reg, active |-> active,
          resp |-> ErrorResponse(404, "DBInstanceNotFound")]
    ELSE [reg |-> [reg EXCEPT ![req.id].status = "deleted"], active |-> active,
          resp |-> [status |-> 200, code |-> "DeleteDBInstanceResponse",
                    instances |-> {InstanceXml(req.id, "", "deleted", 0)}]]

\* The port of the deleted instance stays in active_rds_ports: the handler
\* never removes it.
handle_rds_delete_db_instance(req, reg, active, docker, containerOk, commitOk) ==
    IF req.id \notin DOMAIN reg
    THEN [reg |-> reg, active |-> active,
          resp |-> ErrorResponse(404, "DBInstanceNotFound")]
    ELSE IF (docker /\ ~containerOk) \/ ~commitOk
    THEN [reg |-> reg, active |-> active,
          resp |-> ErrorResponse(500, "InternalError")]
    ELSE [reg |-> Without(reg, req.id), active |-> active,
          resp |-> [status |-> 200, code |-> "DeleteDBInstanceResponse",
                    instances |-> {InstanceXml(req.id, "", "deleted", 0)}]]

----------------------------------------------------------------------------
(* Actions of the database orchestrator *)

Idle == \A c \in Clients : inflight[c] = NoReq

\* A client sends a request while others may be in flight.
RdsSend(c, r) ==
    /\ inflight[c] = NoReq
    /\ inflight' = [inflight EXCEPT ![c] = r]
    /\ UNCHANGED <<rds_instances, active_rds_ports, docker_client, response,
                   handled, assigned_port, deleted_ids, freed_ports,
                   failed_ids, survivors>>
    /\ UNCHANGED <<s3Vars, infVars>>

\* A sequential client: it sends a request when none is in flight.
RdsSendSeq(r) ==
    /\ Idle
    /\ RdsSend(1, r)

HandleCreate(c) ==
    /\ inflight[c].action = "CreateDBInstance"
    /\ \/ inflight[c].id \in DOMAIN rds_instances
       \/ Cardinality(active_rds_ports) < MaxPorts
    /\ \E containerOk \in BOOLEAN, fileOk \in BOOLEAN, commitOk \in BOOLEAN :
          LET req == inflight[c]
              r == handle_rds_create_db_instance(req, rds_instances, active_rds_ports,
                                                 docker_client, containerOk, fileOk, commitOk)
              ok == r.resp.status = 200
              port == IF ok THEN r.reg[req.id].port ELSE 0
          IN  /\ rds_instances' = r.reg
              /\ active_rds_ports' = r.active
              /\ response' = r.resp
              /\ assigned_port' = IF ok THEN [assigned_port EXCEPT ![req.id] = port]
                                        ELSE assigned_port
              /\ deleted_ids' = IF ok THEN deleted_ids \ {req.id} ELSE deleted_ids
              /\ freed_ports' = IF ok THEN freed_ports \ {port} ELSE freed_ports
              /\ failed_ids' = IF ok THEN failed_ids \ {req.id}
                                ELSE IF /\ req.id \notin DOMAIN rds_instances
                                        /\ docker_client
                                        /\ req.engine \in RDS_ENGINE_MAP
                                        /\ ~containerOk
                                THEN failed_ids \cup {req.id}
                                ELSE failed_ids
    /\ handled' = inflight[c]
    /\ inflight' = [inflight EXCEPT ![c] = NoReq]
    /\ UNCHANGED <<docker_client, survivors>>
    /\ UNCHANGED <<s3Vars, infVars>>

HandleDescribe(c) ==
    /\ inflight[c].action = "DescribeDBInstances"
    /\ response' = handle_rds_describe_db_instances(inflight[c], rds_instances)
    /\ handled' = inflight[c]
    /\ inflight' = [inflight EXCEPT ![c] = NoReq]
    /\ UNCHANGED <<rds_instances, active_rds_ports, docker_client,
                   assigned_port, deleted_ids, freed_ports, failed_ids, survivors>>
    /\ UNCHANGED <<s3Vars, infVars>>

HandleDelete(c) ==
    /\ inflight[c].action = "DeleteDBInstance"
    /\ \E containerOk \in BOOLEAN, commitOk \in BOOLEAN :
          LET req == inflight[c]
              r == handle_rds_delete_db_instance(req, rds_instances, active_rds_ports,
                                                 docker_client, containerOk, commitOk)
              ok == r.resp.status = 200
          IN  /\ rds_instances' = r.reg
              /\ active_rds_ports' = r.active
              /\ response' = r.resp
              /\ assigned_port' = IF ok THEN [assigned_port EXCEPT ![req.id] = 0]
                                        ELSE assigned_port
              /\ deleted_ids' = IF ok THEN deleted_ids \cup {req.id} ELSE deleted_ids
              /\ freed_ports' = IF ok THEN freed_ports \cup {rds_instances[req.id].port}
                                      ELSE freed_ports
              /\ survivors' = IF ok THEN survivors \ {req.id} ELSE survivors
    /\ handled' = inflight[c]
    /\ inflight' = [inflight EXCEPT ![c] = NoReq]
    /\ UNCHANGED <<docker_client, failed_ids>>
    /\ UNCHANGED <<s3Vars, infVars>>

\* Variant: an unknown Action is served as a Describe of all instances.
HandleInvalidAction_lenient(c) ==
    /\ inflight[c] # NoReq
    /\ inflight[c].action \notin {NoAction, "CreateDBInstance", "DescribeDBInstances",
                                  "DeleteDBInstance"}
    /\ response' = handle_rds_describe_db_instances(inflight[c], rds_instances)
    /\ handled' = inflight[c]
    /\ inflight' = [inflight EXCEPT ![c] = NoReq]
    /\ UNCHANGED <<rds_instances, active_rds_ports, docker_client,
                   assigned_port, deleted_ids, freed_ports, failed_ids, survivors>>
    /\ UNCHANGED <<s3Vars, infVars>>

\* handle_rds_request, the else branch: any other Action.
HandleInvalidAction(c) ==
    /\ inflight[c] # NoReq
    /\ inflight[c].action \notin {NoAction, "CreateDBInstance", "DescribeDBInstances",
                                  "DeleteDBInstance"}
    /\ response' = ErrorResponse(400, "InvalidAction")
    /\ handled' = inflight[c]
    /\ inflight' = [inflight EXCEPT ![c] = NoReq]
    /\ UNCHANGED <<rds_instances, active_rds_ports, docker_client,
                   assigned_port, deleted_ids, freed_ports, failed_ids, survivors>>
    /\ UNCHANGED <<s3Vars, infVars>>

\* root_post, when the body is not form-encoded or has no Action field.
RootPostNotFound(c) ==
    /\ inflight[c] # NoReq
    /\ inflight[c].action = NoAction
    /\ response' = ErrorResponse(404, "Not found or unsupported service request")
    /\ handled' = inflight[c]
    /\ inflight' = [inflight EXCEPT ![c] = NoReq]
    /\ UNCHANGED <<rds_instances, active_rds_ports, docker_client,
                   assigned_port, deleted_ids, freed_ports, failed_ids, survivors>>
    /\ UNCHANGED <<s3Vars, infVars>>

\* The process stops (after the requests in flight are answered) and starts
\* again: the table is kept, the port set is rebuilt from it, the container
\* engine is probed anew.
Restart ==
    /\ Idle
    /\ active_rds_ports' = PortsOfRegistry(rds_instances)
    /\ \E d \in BOOLEAN : docker_client' = d
    /\ freed_ports' = {}
    /\ survivors' = DOMAIN rds_instances
    /\ UNCHANGED <<rds_instances, inflight, response, handled, assigned_port,
                   deleted_ids, failed_ids>>
    /\ UNCHANGED <<s3Vars, infVars>>

----------------------------------------------------------------------------
(* Part 2: the object store engine.                                        *)
(*                                                                         *)
(* A path is the sequence of its segments, below the file system root; a   *)
(* bucket name and a key are the sequences of segments that splitting the  *)
(* string at "/" gives.  S3_ROOT_DIR is the resolved storage root.         *)

S3_ROOT_DIR == <<"s3_data">>

BucketNames == {<<"b">>, <<"b2">>}
Keys == {<<"x">>, <<"d", "x">>, <<"d", "..", "x">>, <<"..", "b2", "x">>, <<"..", "..", "e">>}

\* Keys of which one is a prefix of another, for one bucket.
DirBucketNames == {<<"b">>}
DirKeys == {<<"x">>, <<"d">>, <<"d", "x">>, <<"..", "..", "e">>}

\* Bucket names that are dot segments, beside an ordinary one.
DotBucketNames == {<<"b">>, <<".">>, <<"..">>}
DotKeys == {<<"x">>}

\* The bucket and the keys of the requests that run concurrently.
ConcBucketNames == {<<"b">>}
ConcKeys == {<<"x">>, <<"d", "x">>}

\* The query parameter "prefix" when the request has none.
NoPrefix == <<>>

\* The keys and the prefixes of the requests in the runs with list objects.
ListKeys == {<<"x">>, <<"d", "x">>, <<"..", "b2", "x">>}
ListPrefixes == {NoPrefix, <<"d">>}
Bodies == {"hi", "yo"}

\* The object whose puts and deletes the history variable last_body follows.
TrackedBucket == <<"b2">>
TrackedKey == <<"x">>

\* The characters of a segment.
Spell(seg) ==
    CASE seg = "s3_data" -> <<"s", "3", "_", "d", "a", "t", "a">>
      [] seg = "b"  -> <<"b">>
      [] seg = "b2" -> <<"b", "2">>
      [] seg = "d"  -> <<"d">>
      [] seg = "x"  -> <<"x">>
      [] seg = "e"  -> <<"e">>
      [] seg = "m"  -> <<"m">>
      [] seg = "health" -> <<"h", "e", "a", "l", "t", "h">>
      [] seg = "model"  -> <<"m", "o", "d", "e", "l">>
      [] seg = "invoke" -> <<"i", "n", "v", "o", "k", "e">>
      [] seg = "favicon.ico" -> <<"f", "a", "v", "i", "c", "o", "n", ".", "i", "c", "o">>
      [] seg = ".." -> <<".", ".">>
      [] seg = "."  -> <<".">>
      [] seg = ""   -> <<>>

\* str(path) of an absolute path.
RECURSIVE StrOf(_)
StrOf(path) ==
    IF path = <<>> THEN <<>> ELSE <<"/">> \o Spell(Head(path)) \o StrOf(Tail(path))

Str(path) == IF path = <<>> THEN <<"/">> ELSE StrOf(path)

\* s.startswith(prefix), on strings.
StartsWith(s, prefix) ==
    Len(prefix) <= Len(s) /\ SubSeq(s, 1, Len(prefix)) = prefix

\* p is d or lies below d, segment by segment.
IsUnder(p, d) == Len(d) <= Len(p) /\ SubSeq(p, 1, Len(d)) = d

Parent(p) == SubSeq(p, 1, Len(p) - 1)

Prefixes(p) == {SubSeq(p, 1, n) : n \in 0..Len(p)}

\* os.path.basename
basename(name) == IF name = <<>> THEN "" ELSE name[Len(name)]

\* os.path.normpath
RECURSIVE NormFold(_, _, _)
NormFold(segs, stack, abs) ==
    IF segs = <<>> THEN stack
    ELSE LET h == Head(segs)
             t == Tail(segs)
         IN  IF h \in {"", "."} THEN NormFold(t, stack, abs)
             ELSE IF h = ".."
             THEN IF stack # <<>> /\ stack[Len(stack)] # ".."
                  THEN NormFold(t, SubSeq(stack, 1, Len(stack) - 1), abs)
                  ELSE IF abs THEN NormFold(t, stack, abs)
                  ELSE NormFold(t, Append(stack, ".."), abs)
             ELSE NormFold(t, Append(stack, h), abs)

normpath(key) ==
    LET abs == Len(key) > 1 /\ key[1] = ""
    IN  [abs |-> abs, segs |-> NormFold(key, <<>>, abs)]

\* Path.resolve() of an absolute path (the tree holds no symbolic links).
RECURSIVE ResolveFold(_, _)
ResolveFold(segs, stack) ==
    IF segs = <<>> THEN stack
    ELSE LET h == Head(segs)
             t == Tail(segs)
         IN  IF h \in {"", "."} THEN ResolveFold(t, stack)
             ELSE IF h = ".."
             THEN ResolveFold(t, IF stack = <<>> THEN stack
                                 ELSE SubSeq(stack, 1, Len(stack) - 1))
             ELSE ResolveFold(t, Append(stack, h))

resolve(path) == ResolveFold(path, <<>>)

\* Path(S3_ROOT_DIR) / safe_name: joining drops a "." segment and keeps "..".
_get_bucket_path(bucket_name) ==
    LET safe_name == basename(bucket_name)
    IN  IF safe_name = "." THEN S3_ROOT_DIR ELSE S3_ROOT_DIR \o <<safe_name>>

\* What _get_object_path yields when it raises HTTPException(400).
InvalidKeyPath == <<"<400 Invalid key path>">>

_get_object_path(bucket_name, key) ==
    LET bucket_path == _get_bucket_path(bucket_name)
        safe_key == normpath(key)
        full_path == resolve(IF safe_key.abs THEN safe_key.segs
                             ELSE bucket_path \o safe_key.segs)
    IN  IF ~StartsWith(Str(full_path), Str(resolve(bucket_path)))
        THEN InvalidKeyPath
        ELSE full_path

----------------------------------------------------------------------------
(* The file system, as the handlers use it.  fs = [dirs, files]. *)

\* What the operating system's lookup of a path with no entry yields.
NoEntry == <<"<ENOENT>">>

\* The entry a path names to the operating system: ".." leads to the parent
\* of a directory that exists, and to nothing from what is not a directory.
RECURSIVE OsWalk(_, _, _)
OsWalk(fs, segs, stack) ==
    IF segs = <<>> THEN stack
    ELSE LET h == Head(segs)
             t == Tail(segs)
         IN  IF h \in {"", "."} THEN OsWalk(fs, t, stack)
             ELSE IF h = ".."
             THEN IF stack \notin fs.dirs THEN NoEntry
                  ELSE OsWalk(fs, t, IF stack = <<>> THEN stack
                                     ELSE SubSeq(stack, 1, Len(stack) - 1))
             ELSE OsWalk(fs, t, Append(stack, h))

OsPath(fs, p) == OsWalk(fs, p, <<>>)

IsDir(fs, p) == OsPath(fs, p) \in fs.dirs
IsFile(fs, p) == OsPath(fs, p) \in DOMAIN fs.files
Exists(fs, p) == IsDir(fs, p) \/ IsFile(fs, p)

\* path.iterdir()
Children(fs, p) ==
    {q \in fs.dirs \cup DOMAIN fs.files :
        Len(q) = Len(OsPath(fs, p)) + 1 /\ Parent(q) = OsPath(fs, p)}

\* The objects of a bucket: the files below its directory (path.rglob("*")).
ObjectsOf(fs, bucket_name) ==
    LET path == OsPath(fs, _get_bucket_path(bucket_name))
    IN  {q \in DOMAIN fs.files : IsUnder(q, path) /\ q # path}

S3Response(status, code, body) == [status |-> status, code |-> code, body |-> body]

NoS3Resp == S3Response(0, "", "")
NoS3Req == [op |-> "none", bucket |-> <<>>, key |-> <<>>]
S3Req(op, bucket, key) == [op |-> op, bucket |-> bucket, key |-> key]
NoPut == [bucket |-> <<>>, key |-> <<>>, path |-> <<>>]

\* Variant: the bucket is removed with everything in it.
s3_delete_bucket_rmtree(bucket_name, fs) ==
    LET path == _get_bucket_path(bucket_name)
    IN  IF ~Exists(fs, path)
        THEN [fs |-> fs, resp |-> S3Response(404, "NoSuchBucket", "")]
        ELSE [fs |-> [dirs |-> {q \in fs.dirs : ~IsUnder(q, path)},
                      files |-> [q \in {f \in DOMAIN fs.files : ~IsUnder(f, path)}
                                   |-> fs.files[q]]],
              resp |-> S3Response(204, "", "")]

s3_create_bucket(bucket_name, fs) ==
    LET path == _get_bucket_path(bucket_name)
    IN  IF IsDir(fs, path)
        THEN [fs |-> fs, resp |-> S3Response(200, "", "")]
        ELSE IF IsFile(fs, path) \/ ~IsDir(fs, Parent(path))
        THEN [fs |-> fs, resp |-> S3Response(500, "InternalError", "")]
        ELSE [fs |-> [fs EXCEPT !.dirs = @ \cup {path}],
              resp |-> S3Response(200, "", "")]

s3_delete_bucket(bucket_name, fs) ==
    LET path == _get_bucket_path(bucket_name)
    IN  IF ~Exists(fs, path)
        THEN [fs |-> fs, resp |-> S3Response(404, "NoSuchBucket", "")]
        ELSE IF IsFile(fs, path)
        THEN [fs |-> fs, resp |-> S3Response(500, "Internal Server Error", "")]
        ELSE IF Children(fs, path) # {}
        THEN [fs |-> fs, resp |-> S3Response(409, "BucketNotEmpty", "")]
        ELSE [fs |-> [fs EXCEPT !.dirs = @ \ {OsPath(fs, path)}],
              resp |-> S3Response(204, "", "")]

\* s3_put_object up to "await request.body()": resolve the key, make the
\* parent directories.
s3_put_object_begin(bucket_name, key, fs) ==
    LET obj_path == _get_object_path(bucket_name, key)
    IN  IF obj_path = InvalidKeyPath
        THEN [fs |-> fs, resp |-> S3Response(400, "Invalid key path", ""), path |-> obj_path]
        ELSE IF \E q \in Prefixes(Parent(obj_path)) : IsFile(fs, q)
        THEN [fs |-> fs, resp |-> S3Response(500, "Internal Server Error", ""),
              path |-> obj_path]
        ELSE [fs |-> [fs EXCEPT !.dirs = @ \cup Prefixes(Parent(obj_path))],
              resp |-> NoS3Resp, path |-> obj_path]

\* Variant: a put whose file cannot be opened reports success all the same.
s3_put_object_write_noerr(obj_path, body, fs) ==
    IF IsDir(fs, obj_path) \/ ~IsDir(fs, Parent(obj_path))
    THEN [fs |-> fs, resp |-> S3Response(200, "", "")]
    ELSE [fs |-> [fs EXCEPT !.files = (obj_path :> body) @@ @],
          resp |-> S3Response(200, "", "")]

\* s3_put_object after the body has arrived: write it.
s3_put_object_write(obj_path, body, fs) ==
    IF IsDir(fs, obj_path) \/ ~IsDir(fs, Parent(obj_path))
    THEN [fs |-> fs, resp |-> S3Response(500, "InternalError", "")]
    ELSE [fs |-> [fs EXCEPT !.files = (obj_path :> body) @@ @],
          resp |-> S3Response(200, "", "")]

s3_get_object(bucket_name, key, fs) ==
    LET obj_path == _get_object_path(bucket_name, key)
    IN  IF obj_path = InvalidKeyPath THEN S3Response(400, "Invalid key path", "")
        ELSE IF ~IsFile(fs, obj_path) THEN S3Response(404, "NoSuchKey", "")
        ELSE S3Response(200, "", fs.files[obj_path])

s3_delete_object(bucket_name, key, fs) ==
    LET obj_path == _get_object_path(bucket_name, key)
    IN  IF obj_path = InvalidKeyPath
        THEN [fs |-> fs, resp |-> S3Response(400, "Invalid key path", "")]
        ELSE IF IsDir(fs, obj_path)
        THEN [fs |-> fs, resp |-> S3Response(500, "InternalError", "")]
        ELSE IF IsFile(fs, obj_path)
        THEN [fs |-> [fs EXCEPT !.files = Without(@, obj_path)],
              resp |-> S3Response(204, "", "")]
        ELSE [fs |-> fs, resp |-> S3Response(204, "", "")]

s3_head_object(bucket_name, key, fs) ==
    LET obj_path == _get_object_path(bucket_name, key)
    IN  IF obj_path = InvalidKeyPath THEN S3Response(400, "Invalid key path", "")
        ELSE IF ~IsFile(fs, obj_path) THEN S3Response(404, "", "")
        ELSE S3Response(200, "", "")

NoListing == [Name |-> <<>>, Prefix |-> <<>>, KeyCount |-> 0, IsTruncated |-> "",
              Keys |-> EmptyBag]

\* _generate_list_buckets_xml: one Bucket element with its Name (b.name) for
\* each directory it is given.
_generate_list_buckets_xml(buckets) == {basename(b) : b \in buckets}

\* root_get: with an SDK marker in the headers, the directories directly under
\* the storage root are listed (iterdir raises when the root is gone and the
\* framework answers 500); without one, the status document is returned.
root_get(sdk, fs) ==
    IF ~sdk
    THEN [resp |-> S3Response(200, "", "running"), buckets |-> {}]
    ELSE IF ~IsDir(fs, S3_ROOT_DIR)
    THEN [resp |-> S3Response(500, "Internal Server Error", ""), buckets |-> {}]
    ELSE [resp |-> S3Response(200, "", ""),
          buckets |-> _generate_list_buckets_xml(
                          {x \in Children(fs, S3_ROOT_DIR) : IsDir(fs, x)})]

\* obj_path.resolve().relative_to(bucket_path)
relative_to(path, other) == SubSeq(path, Len(other) + 1, Len(path))

\* _generate_list_objects_xml: one Contents element with its Key for each of
\* the objects that lies below the bucket's path; Keys is the bag of the Key
\* elements.
_generate_list_objects_xml(bucket_name, objects, prefix) ==
    LET bucket_path == resolve(_get_bucket_path(bucket_name))
        listed == {q \in objects : IsUnder(resolve(q), bucket_path)}
        keys == {relative_to(resolve(q), bucket_path) : q \in listed}
    IN  [Name |-> bucket_name,
         Prefix |-> prefix,
         KeyCount |-> Cardinality(objects),
         IsTruncated |-> "false",
         Keys |-> [k \in keys |->
                    Cardinality({q \in listed : relative_to(resolve(q), bucket_path) = k})]]

\* Variant: every bucket that exists is listed, whatever its name.
s3_list_objects_noguard(bucket_name, prefix, fs) ==
    IF ~Exists(fs, _get_bucket_path(bucket_name))
    THEN [resp |-> S3Response(404, "NoSuchBucket", ""), list |-> NoListing]
    ELSE [resp |-> S3Response(200, "ListBucketResult", ""),
          list |-> _generate_list_objects_xml(bucket_name, ObjectsOf(fs, bucket_name),
                                              prefix)]

\* s3_list_objects: the names the other routes use are refused, a bucket
\* that exists is listed with all the files below it; the prefix is passed
\* on to the listing, where it is written out and nothing else.
s3_list_objects(bucket_name, prefix, fs) ==
    IF bucket_name \in {<<"health">>, <<"model">>, <<"favicon.ico">>}
    THEN [resp |-> S3Response(404, "Not a bucket", ""), list |-> NoListing]
    ELSE IF ~Exists(fs, _get_bucket_path(bucket_name))
    THEN [resp |-> S3Response(404, "NoSuchBucket", ""), list |-> NoListing]
    ELSE [resp |-> S3Response(200, "ListBucketResult", ""),
          list |-> _generate_list_objects_xml(bucket_name, ObjectsOf(fs, bucket_name),
                                              prefix)]

----------------------------------------------------------------------------
(* Actions of the object store *)

FS == [dirs |-> dirs, files |-> files]

\* No put object is between its two halves.
S3Idle == \A c \in Clients : putting[c] = NoPut

S3CreateBucket(b) ==
    /\ LET r == s3_create_bucket(b, FS)
       IN  /\ dirs' = r.fs.dirs
           /\ files' = r.fs.files
           /\ s3resp' = r.resp
    /\ s3last' = S3Req("CreateBucket", b, <<>>)
    /\ s3list' = NoListing
    /\ UNCHANGED <<putting, last_body>>
    /\ UNCHANGED <<rdsVars, infVars>>

S3DeleteBucket(b) ==
    /\ LET r == s3_delete_bucket(b, FS)
       IN  /\ dirs' = r.fs.dirs
           /\ files' = r.fs.files
           /\ s3resp' = r.resp
    /\ s3last' = S3Req("DeleteBucket", b, <<>>)
    /\ s3list' = NoListing
    /\ UNCHANGED <<putting, last_body>>
    /\ UNCHANGED <<rdsVars, infVars>>

S3PutBegin(c, b, k) ==
    /\ putting[c] = NoPut
    /\ LET r == s3_put_object_begin(b, k, FS)
       IN  /\ dirs' = r.fs.dirs
           /\ files' = r.fs.files
           /\ s3resp' = r.resp
           /\ putting' = IF r.resp = NoS3Resp
                         THEN [putting EXCEPT ![c] =
                                 [bucket |-> b, key |-> k, path |-> r.path]]
                         ELSE putting
    /\ s3last' = S3Req("PutObject", b, k)
    /\ s3list' = NoListing
    /\ UNCHANGED last_body
    /\ UNCHANGED <<rdsVars, infVars>>

S3PutWrite(c, body) ==
    /\ putting[c] # NoPut
    /\ LET p == putting[c]
           r == s3_put_object_write(p.path, body, FS)
           ok == r.resp.status = 200
       IN  /\ dirs' = r.fs.dirs
           /\ files' = r.fs.files
           /\ s3resp' = r.resp
           /\ s3last' = S3Req("PutObject", p.bucket, p.key)
           /\ last_body' = IF ok /\ p.bucket = TrackedBucket /\ p.key = TrackedKey
                           THEN body ELSE last_body
    /\ putting' = [putting EXCEPT ![c] = NoPut]
    /\ s3list' = NoListing
    /\ UNCHANGED <<rdsVars, infVars>>

S3GetObject(b, k) ==
    /\ s3resp' = s3_get_object(b, k, FS)
    /\ s3last' = S3Req("GetObject", b, k)
    /\ s3list' = NoListing
    /\ UNCHANGED <<dirs, files, putting, last_body>>
    /\ UNCHANGED <<rdsVars, infVars>>

S3DeleteObject(b, k) ==
    /\ LET r == s3_delete_object(b, k, FS)
           ok == r.resp.status = 204
       IN  /\ dirs' = r.fs.dirs
           /\ files' = r.fs.files
           /\ s3resp' = r.resp
           /\ last_body' = IF ok /\ b = TrackedBucket /\ k = TrackedKey
                           THEN "" ELSE last_body
    /\ s3last' = S3Req("DeleteObject", b, k)
    /\ s3list' = NoListing
    /\ UNCHANGED putting
    /\ UNCHANGED <<rdsVars, infVars>>

S3HeadObject(b, k) ==
    /\ s3resp' = s3_head_object(b, k, FS)
    /\ s3last' = S3Req("HeadObject", b, k)
    /\ s3list' = NoListing
    /\ UNCHANGED <<dirs, files, putting, last_body>>
    /\ UNCHANGED <<rdsVars, infVars>>

S3ListObjects(b, prefix) ==
    /\ LET r == s3_list_objects(b, prefix, FS)
       IN  /\ s3resp' = r.resp
           /\ s3list' = r.list
    /\ s3last' = S3Req("ListObjects", b, prefix)
    /\ UNCHANGED <<dirs, files, putting, last_body>>
    /\ UNCHANGED <<rdsVars, infVars>>

\* GET / with one of the SDK markers in its headers: list buckets.  The Name
\* elements of the answer are kept in s3list.Keys, one sequence per bucket.
S3ListBuckets ==
    /\ LET r == root_get(TRUE, FS)
       IN  /\ s3resp' = r.resp
           /\ s3list' = [NoListing EXCEPT !.Keys = SetToBag({<<n>> : n \in r.buckets})]
    /\ s3last' = S3Req("ListBuckets", <<>>, <<>>)
    /\ UNCHANGED <<dirs, files, putting, last_body>>
    /\ UNCHANGED <<rdsVars, infVars>>

\* Path(S3_ROOT_DIR).mkdir(parents=True, exist_ok=True) at startup.
S3Init ==
    /\ dirs = Prefixes(S3_ROOT_DIR)
    /\ files = <<>>
    /\ putting = [c \in Clients |-> NoPut]
    /\ s3resp = NoS3Resp
    /\ s3list = NoListing
    /\ s3last = NoS3Req
    /\ last_body = ""

----------------------------------------------------------------------------
(* Part 3: the inference proxy.                                            *)
(*                                                                         *)
(* invoke_model parses the body, picks a handler by the fields of the body *)
(* and the handler makes one call to the backend, awaits its outcome and   *)
(* answers.  A request body is modelled by what json() yields for it: no   *)
(* value (the body is not JSON), a scalar (null, a number, a boolean), or  *)
(* an object with some of the three fields.                                *)

OLLAMA_GENERATE_URL == "http://localhost:11434/api/generate"
OLLAMA_CHAT_URL == "http://localhost:11434/api/chat"

DialectFields == {"messages", "inputText", "prompt"}

InferenceBodies ==
    [kind : {"invalid", "scalar"}, fields : {{}}]
    \cup [kind : {"object"}, fields : SUBSET DialectFields]

\* What the backend call can come to: a 200 reply with a JSON object, a reply
\* with another status, a transport failure, the expiry of timeout=60.0, a
\* 200 reply whose body is not JSON, a 200 reply whose JSON is not an object.
BackendOutcomes == {"ok", "status", "transport", "timeout", "not_json", "not_object"}

\* resp.text of the reply, or str(e) of the exception.
OutcomeText(outcome) ==
    CASE outcome = "ok"         -> "hello"
      [] outcome = "status"     -> "model not found"
      [] outcome = "transport"  -> "All connection attempts failed"
      [] outcome = "timeout"    -> "ReadTimeout"
      [] outcome = "not_json"   -> "Expecting value"
      [] outcome = "not_object" -> "[]"
      [] OTHER                  -> ""

\* A field of a JSON object is the sequence of its value: empty when the
\* object does not have the field.
Absent == <<>>

\* dict.get(key, default)
Get(field, default) == IF field = Absent THEN default ELSE field[1]

\* The 200 replies of the chat endpoint: message.content, message.thinking,
\* prompt_eval_count and eval_count, each there or not.
ChatReplies ==
    [content : {Absent, <<"">>, <<"hello">>},
     thinking : {Absent, <<"">>, <<"hmm">>},
     prompt_eval_count : {Absent, <<7>>},
     eval_count : {Absent, <<5>>}]

NoReply == [content |-> Absent, thinking |-> Absent, prompt_eval_count |-> Absent,
            eval_count |-> Absent]

\* A response: its status, the envelope or "error", the text in it, and the
\* usage fields inputTokens and outputTokens where the envelope has them.
InfResponse(status, kind, text) ==
    [status |-> status, kind |-> kind, text |-> text,
     inputTokens |-> Absent, outputTokens |-> Absent]

\* Variant: the reasoning is left out of the text.
ConverseResponse_nothinking(reply) ==
    [status |-> 200, kind |-> "output.message", text |-> Get(reply.content, ""),
     inputTokens |-> <<Get(reply.prompt_eval_count, 0)>>,
     outputTokens |-> <<Get(reply.eval_count, 0)>>]

\* Variant: a count the backend does not report is left out of the usage.
ConverseResponse_nousage(reply) ==
    [status |-> 200, kind |-> "output.message",
     text |-> IF Get(reply.thinking, "") # ""
              THEN "<" \o Get(reply.thinking, "") \o ">\n" \o Get(reply.content, "")
              ELSE Get(reply.content, ""),
     inputTokens |-> reply.prompt_eval_count,
     outputTokens |-> reply.eval_count]

\* nova_resp of handle_converse_style.
ConverseResponse(reply) ==
    LET response_text == Get(reply.content, "")
        thinking_text == Get(reply.thinking, "")
        text == IF thinking_text # "" /\ response_text = ""
                THEN "<" \o thinking_text \o ">\n"
                ELSE IF thinking_text # ""
                THEN "<" \o thinking_text \o ">\n" \o response_text
                ELSE response_text
    IN  [status |-> 200, kind |-> "output.message", text |-> text,
         inputTokens |-> <<Get(reply.prompt_eval_count, 0)>>,
         outputTokens |-> <<Get(reply.eval_count, 0)>>]

NoInfResp == InfResponse(0, "", "")
NoBody == [kind |-> "none", fields |-> {}]
NoInfReq == [handler |-> "none", url |-> "", outcome |-> "", body |-> NoBody,
             reply |-> NoReply]

\* invoke_model: the handler the body goes to, or the response when it goes
\* to none.  "x in body" raises TypeError on a scalar; the framework answers
\* an unhandled exception with 500.
invoke_model(body) ==
    IF body.kind = "invalid"
    THEN [handler |-> "none", resp |-> InfResponse(400, "error", "Invalid JSON")]
    ELSE IF body.kind = "scalar"
    THEN [handler |-> "none", resp |-> InfResponse(500, "error", "Internal Server Error")]
    ELSE IF "messages" \in body.fields
    THEN [handler |-> "handle_converse_style", resp |-> NoInfResp]
    ELSE IF "inputText" \in body.fields
    THEN [handler |-> "handle_titan_style", resp |-> NoInfResp]
    ELSE IF "prompt" \in body.fields
    THEN [handler |-> "handle_claude_style", resp |-> NoInfResp]
    ELSE [handler |-> "none",
          resp |-> InfResponse(400, "error", "Unsupported Bedrock request format.")]

\* The backend endpoint a handler posts to.
BackendUrl(handler) ==
    IF handler = "handle_converse_style" THEN OLLAMA_CHAT_URL ELSE OLLAMA_GENERATE_URL

\* The envelope of a handler's success response.
Envelope(handler) ==
    CASE handler = "handle_converse_style" -> "output.message"
      [] handler = "handle_titan_style"    -> "results.outputText"
      [] handler = "handle_claude_style"   -> "completion"

\* Variant: a failed call is made once more before the error is reported.
handle_backend_outcome_retry(handler, outcome, reply, calls) ==
    IF outcome \in {"status", "transport", "timeout"} /\ calls < 2
    THEN [again |-> TRUE, resp |-> NoInfResp]
    ELSE [again |-> FALSE,
          resp |-> IF outcome = "ok" THEN InfResponse(200, Envelope(handler), OutcomeText(outcome))
                   ELSE InfResponse(502, "error", OutcomeText(outcome))]

\* Variant: the expiry of the timeout is reported as 504.
handle_backend_outcome_504(handler, outcome, reply, calls) ==
    [again |-> FALSE,
     resp |-> IF outcome = "ok" THEN InfResponse(200, Envelope(handler), OutcomeText(outcome))
              ELSE IF outcome = "timeout" THEN InfResponse(504, "error", OutcomeText(outcome))
              ELSE InfResponse(502, "error", OutcomeText(outcome))]

\* What a handler does with the outcome of its call (the part of
\* handle_converse_style, handle_titan_style and handle_claude_style after
\* client.post): it answers in every branch and never calls again.
handle_backend_outcome(handler, outcome, reply, calls) ==
    [again |-> FALSE,
     resp |->
        IF outcome = "status"
        THEN InfResponse(502, "error",
                         IF handler = "handle_converse_style"
                         THEN "Ollama error: " \o OutcomeText(outcome)
                         ELSE OutcomeText(outcome))
        ELSE IF outcome \in {"transport", "timeout", "not_json"}
        THEN InfResponse(502, "error", OutcomeText(outcome))
        ELSE IF outcome = "not_object"
        THEN InfResponse(500, "error", "Internal Server Error")
        ELSE IF handler = "handle_converse_style"
        THEN ConverseResponse(reply)
        ELSE InfResponse(200, Envelope(handler), OutcomeText(outcome))]

----------------------------------------------------------------------------
(* Actions of the inference proxy *)

InvokeModel(c, body) ==
    /\ inf_pc[c] = "idle"
    /\ LET r == invoke_model(body)
       IN  IF r.handler = "none"
           THEN /\ inf_pc' = inf_pc
                /\ inf_req' = [inf_req EXCEPT ![c] = [NoInfReq EXCEPT !.body = body]]
                /\ inf_resp' = [inf_resp EXCEPT ![c] = r.resp]
                /\ inf_calls' = [inf_calls EXCEPT ![c] = 0]
                /\ inf_sent' = [inf_sent EXCEPT ![c] = 1]
           ELSE /\ inf_pc' = [inf_pc EXCEPT ![c] = "waiting"]
                /\ inf_req' = [inf_req EXCEPT ![c] =
                                 [handler |-> r.handler, url |-> BackendUrl(r.handler),
                                  outcome |-> "", body |-> body, reply |-> NoReply]]
                /\ inf_resp' = [inf_resp EXCEPT ![c] = NoInfResp]
                /\ inf_calls' = [inf_calls EXCEPT ![c] = 1]
                /\ inf_sent' = [inf_sent EXCEPT ![c] = 0]
    /\ UNCHANGED <<rdsVars, s3Vars>>

\* The backend call of client c comes to an end; a 200 reply of the chat
\* endpoint is any of ChatReplies.
BackendReply(c, outcome) ==
    /\ inf_pc[c] = "waiting"
    /\ \E reply \in IF outcome = "ok" /\ inf_req[c].url = OLLAMA_CHAT_URL
                     THEN ChatReplies ELSE {NoReply} :
       LET r == handle_backend_outcome(inf_req[c].handler, outcome, reply, inf_calls[c])
       IN  IF r.again
           THEN /\ inf_calls' = [inf_calls EXCEPT ![c] = @ + 1]
                /\ inf_req' = [inf_req EXCEPT ![c].outcome = outcome, ![c].reply = reply]
                /\ UNCHANGED <<inf_pc, inf_resp, inf_sent>>
           ELSE /\ inf_pc' = [inf_pc EXCEPT ![c] = "idle"]
                /\ inf_req' = [inf_req EXCEPT ![c].outcome = outcome, ![c].reply = reply]
                /\ inf_resp' = [inf_resp EXCEPT ![c] = r.resp]
                /\ inf_sent' = [inf_sent EXCEPT ![c] = @ + 1]
                /\ UNCHANGED inf_calls
    /\ UNCHANGED <<rdsVars, s3Vars>>

InfInit ==
    /\ inf_pc = [c \in Clients |-> "idle"]
    /\ inf_req = [c \in Clients |-> NoInfReq]
    /\ inf_resp = [c \in Clients |-> NoInfResp]
    /\ inf_calls = [c \in Clients |-> 0]
    /\ inf_sent = [c \in Clients |-> 0]

----------------------------------------------------------------------------
(* Part 4: the router.                                                     *)
(*                                                                         *)
(* The routes in the order of their decorators.  A URL path is the         *)
(* sequence of its segments: "/" is <<>>, "/b/x" is <<"b", "x">>.  A route  *)
(* whose path matches and whose method is the request's takes the request  *)
(* (the first such route); when only paths match, the answer is 405, and   *)
(* when none does, 404.  The paths of the framework's own documentation    *)
(* routes are not among the inputs.                                        *)

Routes ==
    << [method |-> "GET",    path |-> "/health",                   handler |-> "health"],
       [method |-> "POST",   path |-> "/model/{model_id}/invoke",  handler |-> "invoke_model"],
       [method |-> "GET",    path |-> "/",                         handler |-> "root_get"],
       [method |-> "POST",   path |-> "/",                         handler |-> "root_post"],
       [method |-> "PUT",    path |-> "/{bucket_name}",            handler |-> "s3_create_bucket"],
       [method |-> "DELETE", path |-> "/{bucket_name}",            handler |-> "s3_delete_bucket"],
       [method |-> "GET",    path |-> "/{bucket_name}",            handler |-> "s3_list_objects"],
       [method |-> "PUT",    path |-> "/{bucket_name}/{key:path}", handler |-> "s3_put_object"],
       [method |-> "GET",    path |-> "/{bucket_name}/{key:path}", handler |-> "s3_get_object"],
       [method |-> "DELETE", path |-> "/{bucket_name}/{key:path}", handler |-> "s3_delete_object"],
       [method |-> "HEAD",   path |-> "/{bucket_name}/{key:path}", handler |-> "s3_head_object"] >>

\* The path of a request matches the path of a route: a parameter stands for
\* one segment that is not empty, a parameter of type path for any rest.
PathMatches(pattern, path) ==
    CASE pattern = "/health" -> path = <<"health">>
      [] pattern = "/model/{model_id}/invoke" ->
             Len(path) = 3 /\ path[1] = "model" /\ path[2] # "" /\ path[3] = "invoke"
      [] pattern = "/" -> path = <<>>
      [] pattern = "/{bucket_name}" -> Len(path) = 1 /\ path[1] # ""
      [] pattern = "/{bucket_name}/{key:path}" -> Len(path) >= 2 /\ path[1] # ""
      [] OTHER -> FALSE

Min(S) == CHOOSE x \in S : \A y \in S : x <= y

\* The handler a request goes to.
route(method, path) ==
    LET full == {i \in DOMAIN Routes :
                    PathMatches(Routes[i].path, path) /\ Routes[i].method = method}
        partial == {i \in DOMAIN Routes : PathMatches(Routes[i].path, path)}
    IN  IF full # {} THEN Routes[Min(full)].handler
        ELSE IF partial # {} THEN "method_not_allowed"
        ELSE "not_found"

Methods == {"GET", "PUT", "DELETE", "POST", "HEAD"}

Paths == {<<>>, <<"health">>, <<"b">>, <<"b", "x">>, <<"model", "m", "invoke">>, <<"", "x">>}

\* An HTTP request: sdk tells whether the Authorization or User-Agent header
\* carries one of the markers root_get looks for, form whether the content
\* type is application/x-www-form-urlencoded, action is the Action field of
\* the form ("" when there is none), json what the body is as JSON.
HttpRequests ==
    [method : Methods, path : Paths, sdk : {FALSE}, form : {FALSE}, action : {""},
     json : {[kind |-> "invalid", fields |-> {}]}]
    \cup [method : {"GET"}, path : {<<>>}, sdk : {TRUE}, form : {FALSE}, action : {""},
          json : {[kind |-> "invalid", fields |-> {}]}]
    \cup [method : {"POST"}, path : {<<>>}, sdk : {FALSE}, form : {TRUE},
          action : {"", "DescribeDBInstances"},
          json : {[kind |-> "invalid", fields |-> {}]}]
    \cup [method : {"POST"}, path : {<<"model", "m", "invoke">>}, sdk : {FALSE},
          form : {FALSE}, action : {""},
          json : {[kind |-> "object", fields |-> {}]}]

\* The names s3_list_objects refuses, and the requests to the paths /name and
\* /name/x for each of them.
ReservedNames == {"health", "model", "favicon.ico"}

ReservedRequests ==
    [method : {"GET", "PUT", "DELETE"},
     path : {<<n>> : n \in ReservedNames} \cup {<<n, "x">> : n \in ReservedNames},
     sdk : {FALSE}, form : {FALSE}, action : {""},
     json : {[kind |-> "invalid", fields |-> {}]}]

NoHttpReq == [method |-> "", path |-> <<>>, sdk |-> FALSE, form |-> FALSE, action |-> "",
              json |-> [kind |-> "invalid", fields |-> {}]]

HttpInit ==
    /\ http_req = NoHttpReq
    /\ http_route = ""

\* No request is being served.
AllIdle == Idle /\ S3Idle /\ \A c \in Clients : inf_pc[c] = "idle"

\* The application takes up a request of client 1: the router picks the
\* handler and the handler runs up to its first await.
Http(req) ==
    /\ AllIdle
    /\ http_req' = req
    /\ \E h \in {route(req.method, req.path)} :
       LET bucket_name == IF req.path = <<>> THEN <<>> ELSE <<Head(req.path)>>
           key == IF req.path = <<>> THEN <<>> ELSE Tail(req.path)
       IN  /\ http_route' = h
           /\ \/ /\ \/ h \in {"health", "method_not_allowed", "not_found"}
                    \/ h = "root_get" /\ ~req.sdk
                 /\ UNCHANGED <<rdsVars, s3Vars, infVars>>
              \/ /\ h = "root_get" /\ req.sdk
                 /\ S3ListBuckets
              \/ /\ h = "invoke_model"
                 /\ InvokeModel(1, req.json)
              \/ /\ h = "root_post"
                 /\ RdsSend(1, [action |-> IF req.form THEN req.action ELSE NoAction,
                                id |-> NoId, engine |-> ""])
              \/ /\ h = "s3_create_bucket"
                 /\ S3CreateBucket(bucket_name)
              \/ /\ h = "s3_delete_bucket"
                 /\ S3DeleteBucket(bucket_name)
              \/ /\ h = "s3_list_objects"
                 /\ S3ListObjects(bucket_name, NoPrefix)
              \/ /\ h = "s3_put_object"
                 /\ S3PutBegin(1, bucket_name, key)
              \/ /\ h = "s3_get_object"
                 /\ S3GetObject(bucket_name, key)
              \/ /\ h = "s3_delete_object"
                 /\ S3DeleteObject(bucket_name, key)
              \/ /\ h = "s3_head_object"
                 /\ S3HeadObject(bucket_name, key)

RdsInit ==
    /\ rds_instances = <<>>
    /\ active_rds_ports = {}
    /\ docker_client \in BOOLEAN
    /\ inflight = [c \in Clients |-> NoReq]
    /\ response = NoResp
    /\ handled = NoReq
    /\ assigned_port = [i \in DBIds |-> 0]
    /\ deleted_ids = {}
    /\ freed_ports = {}
    /\ failed_ids = {}
    /\ survivors = {}

Init == RdsInit /\ S3Init /\ InfInit /\ HttpInit

\* One request at a time, across restarts.
Next ==
    \/ \E r \in RdsRequests : RdsSendSeq(r) /\ UNCHANGED httpVars
    \/ \E c \in Clients : HandleCreate(c) /\ UNCHANGED httpVars
    \/ \E c \in Clients : HandleDescribe(c) /\ UNCHANGED httpVars
    \/ \E c \in Clients : HandleDelete(c) /\ UNCHANGED httpVars
    \/ \E c \in Clients : HandleInvalidAction(c) /\ UNCHANGED httpVars
    \/ \E c \in Clients : RootPostNotFound(c) /\ UNCHANGED httpVars
    \/ Restart /\ UNCHANGED httpVars

Spec == Init /\ [][Next]_vars

\* Concurrent provisioning: every client may have a Provision in flight.
NextConc ==
    \/ \E c \in Clients, r \in CreateRequests : RdsSend(c, r) /\ UNCHANGED httpVars
    \/ \E c \in Clients : HandleCreate(c) /\ UNCHANGED httpVars

SpecConc == Init /\ [][NextConc]_vars

\* The object store with a sequential client: one request at a time, on the
\* buckets B with the keys K.
NextS3On(B, K) ==
    \/ \E b \in B : S3Idle /\ S3CreateBucket(b) /\ UNCHANGED httpVars
    \/ \E b \in B : S3Idle /\ S3DeleteBucket(b) /\ UNCHANGED httpVars
    \/ \E b \in B, k \in K : S3Idle /\ S3PutBegin(1, b, k) /\ UNCHANGED httpVars
    \/ \E body \in Bodies : S3PutWrite(1, body) /\ UNCHANGED httpVars
    \/ \E b \in B, k \in K : S3Idle /\ S3GetObject(b, k) /\ UNCHANGED httpVars
    \/ \E b \in B, k \in K : S3Idle /\ S3DeleteObject(b, k) /\ UNCHANGED httpVars
    \/ \E b \in B, k \in K : S3Idle /\ S3HeadObject(b, k) /\ UNCHANGED httpVars

NextS3 == NextS3On(BucketNames, Keys)

\* The container engine plays no part in the object store.
InitS3 == Init /\ docker_client = FALSE

SpecS3 == InitS3 /\ [][NextS3]_vars

\* The object store with keys of which one is a prefix of another.
NextS3Dir == NextS3On(DirBucketNames, DirKeys)

SpecS3Dir == InitS3 /\ [][NextS3Dir]_vars

\* The object store with bucket names that are dot segments.
NextS3Dots == NextS3On(DotBucketNames, DotKeys)

SpecS3Dots == InitS3 /\ [][NextS3Dots]_vars

\* The object store with list buckets, over the same bucket names.
NextS3Buckets ==
    \/ NextS3On(DotBucketNames, DotKeys)
    \/ S3Idle /\ S3ListBuckets /\ UNCHANGED httpVars

SpecS3Buckets == InitS3 /\ [][NextS3Buckets]_vars

\* The object store with concurrent requests: a put object awaits its body
\* while other requests, puts among them, are served.
NextS3Conc ==
    \/ \E c \in Clients, b \in ConcBucketNames, k \in ConcKeys :
          S3PutBegin(c, b, k) /\ UNCHANGED httpVars
    \/ \E c \in Clients, body \in Bodies : S3PutWrite(c, body) /\ UNCHANGED httpVars
    \/ \E b \in ConcBucketNames : S3CreateBucket(b) /\ UNCHANGED httpVars
    \/ \E b \in ConcBucketNames : S3DeleteBucket(b) /\ UNCHANGED httpVars
    \/ \E b \in ConcBucketNames, k \in ConcKeys :
          S3DeleteObject(b, k) /\ UNCHANGED httpVars

SpecS3Conc == InitS3 /\ [][NextS3Conc]_vars

\* The object store with list objects.
NextS3List ==
    \/ NextS3On(BucketNames, ListKeys)
    \/ \E b \in BucketNames, prefix \in ListPrefixes :
          S3Idle /\ S3ListObjects(b, prefix) /\ UNCHANGED httpVars

SpecS3List == InitS3 /\ [][NextS3List]_vars

\* The whole application behind the router, with a sequential client.
NextHttp ==
    \/ \E req \in HttpRequests : Http(req)
    \/ S3PutWrite(1, "hi") /\ UNCHANGED httpVars
    \/ HandleDescribe(1) /\ UNCHANGED httpVars
    \/ RootPostNotFound(1) /\ UNCHANGED httpVars

SpecHttp == InitS3 /\ [][NextHttp]_vars

\* The application behind the router, with requests to the names that
\* s3_list_objects refuses.
NextHttpNames ==
    \/ \E req \in ReservedRequests : Http(req)
    \/ S3PutWrite(1, "hi") /\ UNCHANGED httpVars

SpecHttpNames == InitS3 /\ [][NextHttpNames]_vars

\* The inference proxy, every client with its own request.
NextInf ==
    \/ \E c \in Clients, body \in InferenceBodies :
          InvokeModel(c, body) /\ UNCHANGED httpVars
    \/ \E c \in Clients, outcome \in BackendOutcomes :
          BackendReply(c, outcome) /\ UNCHANGED httpVars

SpecInf == InitS3 /\ [][NextInf]_vars

\* A call to the backend comes to an end: the reply, a failure, or the expiry
\* of the timeout.
FairInf ==
    \A c \in Clients :
        WF_vars(\E outcome \in BackendOutcomes :
                   BackendReply(c, outcome) /\ UNCHANGED httpVars)

SpecInfFair == SpecInf /\ FairInf

----------------------------------------------------------------------------
(* Properties of the database orchestrator *)

\* The step answers client c's request.
Handled(c) == inflight[c] # NoReq /\ inflight'[c] = NoReq

Succeeded(resp) == resp.status = 200

\* The port a successful Provision response reports.
PortOf(resp) == (CHOOSE v \in resp.instances : TRUE).port

\* The lowest port at or above the base that no instance of the registry holds.
LowestUnheld(reg) == ProbePort(DEFAULT_RDS_PORT_START, PortsOfRegistry(reg))

\* C1: any two distinct instances present in the registry at the same time
\* have different ports, whatever Provision, Describe and Delete calls (and
\* restarts) came before.
C1_DistinctPorts ==
    \A i, j \in DOMAIN rds_instances :
        i # j => rds_instances[i].port # rds_instances[j].port

\* Two instances are present, the second provisioned after a Delete in this
\* process lifetime.
C1_Witness ==
    /\ Cardinality(DOMAIN rds_instances) = 2
    /\ freed_ports # {}
    /\ handled.action = "CreateDBInstance"
    /\ Succeeded(response)

\* C2: after a successful Delete the port of the deleted instance is free
\* again in the same process lifetime: when it is the lowest port at or above
\* the base that no instance holds, the next successful Provision gets it.
C2_ReleasedPortReused ==
    [][\A x \in DBIds :
          (x \notin DOMAIN rds_instances /\ x \in DOMAIN rds_instances')
          => (LowestUnheld(rds_instances) \in freed_ports
                => rds_instances'[x].port = LowestUnheld(rds_instances))]_vars

\* C3: a Provision whose id is already in the registry fails with
\* DBInstanceAlreadyExists (400) and changes neither the registry (so no
\* field of the existing record) nor the allocated-port set.
C3_DuplicateProvisionRejected ==
    [][\A c \in Clients :
          (/\ Handled(c)
           /\ inflight[c].action = "CreateDBInstance"
           /\ inflight[c].id \in DOMAIN rds_instances)
          => /\ response' = ErrorResponse(400, "DBInstanceAlreadyExists")
             /\ rds_instances' = rds_instances
             /\ active_rds_ports' = active_rds_ports]_vars

\* A Provision of an existing id, asking for another engine than the record
\* has, was answered with already-exists.
C3_Witness ==
    /\ handled.action = "CreateDBInstance"
    /\ handled.id \in DOMAIN rds_instances
    /\ rds_instances[handled.id].engine # handled.engine
    /\ response.code = "DBInstanceAlreadyExists"

\* C4: with several Provision requests in flight at once, each step runs the
\* whole handler of exactly one of them; a Provision succeeds only for an id
\* that is absent when its handler runs, and gets a port no instance holds;
\* it adds exactly its own record; a Provision whose id is present when its
\* handler runs fails with already-exists.  So no two of them get the same
\* port and at most one of those for one id succeeds.
C4_ConcurrentProvision ==
    [][/\ Cardinality({c \in Clients : Handled(c)}) <= 1
       /\ \A c \in Clients :
            Handled(c) =>
              LET req == inflight[c]
              IN  /\ Succeeded(response')
                       => /\ req.id \notin DOMAIN rds_instances
                          /\ PortOf(response') \notin PortsOfRegistry(rds_instances)
                          /\ DOMAIN rds_instances' = DOMAIN rds_instances \cup {req.id}
                          /\ rds_instances'[req.id].port = PortOf(response')
                          /\ \A i \in DOMAIN rds_instances :
                                rds_instances'[i] = rds_instances[i]
                  /\ req.id \in DOMAIN rds_instances
                       => /\ response' = ErrorResponse(400, "DBInstanceAlreadyExists")
                          /\ rds_instances' = rds_instances
                  /\ ~Succeeded(response') => rds_instances' = rds_instances]_vars

\* A Provision of an id succeeded while another Provision of the same id is
\* in flight, and two instances exist.
C4_Witness ==
    /\ handled.action = "CreateDBInstance"
    /\ Succeeded(response)
    /\ \E c \in Clients : inflight[c].action = "CreateDBInstance"
                          /\ inflight[c].id = handled.id
    /\ Cardinality(DOMAIN rds_instances) = 2

\* C9 as stated: deleted is terminal, a deleted id is never available again.
C9_DeletedIsTerminal ==
    [][\A x \in deleted_ids : x \notin DOMAIN rds_instances']_vars

\* C9 amended: an id becomes available only by a successful Provision of it,
\* ceases to be available only by a successful Delete of it (which reports
\* the status deleted and removes the record), and its record does not change
\* in between; every record of the registry has the status available.
C9_Lifecycle ==
    [][\A x \in DBIds :
          /\ (x \notin DOMAIN rds_instances /\ x \in DOMAIN rds_instances')
               => /\ \E c \in Clients : /\ Handled(c)
                                        /\ inflight[c].action = "CreateDBInstance"
                                        /\ inflight[c].id = x
                  /\ Succeeded(response')
                  /\ rds_instances'[x].status = "available"
          /\ (x \in DOMAIN rds_instances /\ x \notin DOMAIN rds_instances')
               => /\ \E c \in Clients : /\ Handled(c)
                                        /\ inflight[c].action = "DeleteDBInstance"
                                        /\ inflight[c].id = x
                  /\ Succeeded(response')
                  /\ response'.instances = {InstanceXml(x, "", "deleted", 0)}
          /\ (x \in DOMAIN rds_instances /\ x \in DOMAIN rds_instances')
               => rds_instances'[x] = rds_instances[x]]_vars

\* An id that was deleted is available again: a Delete happened in this
\* process lifetime and every deleted id has been provisioned again.
C9_Witness ==
    /\ freed_ports # {}
    /\ deleted_ids = {}
    /\ handled.action = "CreateDBInstance"
    /\ Succeeded(response)
    /\ handled.id \in DOMAIN rds_instances

\* C10: Describe of an id that was deleted and not provisioned again fails
\* with DBInstanceNotFound (404); Describe without an id lists no such id;
\* Describe of an existing id returns exactly its record, with the port its
\* Provision reported.
C10_DescribeFollowsLifecycle ==
    [][\A c \in Clients :
          (Handled(c) /\ inflight[c].action = "DescribeDBInstances")
          => LET x == inflight[c].id
             IN  /\ x \in deleted_ids
                      => response' = ErrorResponse(404, "DBInstanceNotFound")
                 /\ x = NoId
                      => /\ Succeeded(response')
                         /\ \A v \in response'.instances : v.id \notin deleted_ids
                 /\ x \in DOMAIN rds_instances
                      => /\ Succeeded(response')
                         /\ response'.instances =
                              {InstanceXml(x, rds_instances[x].engine, "available",
                                           assigned_port[x])}]_vars

\* Describe of a deleted id was answered with not-found while another
\* instance exists.
C10_Witness ==
    /\ handled.action = "DescribeDBInstances"
    /\ handled.id \in deleted_ids
    /\ response = ErrorResponse(404, "DBInstanceNotFound")
    /\ rds_instances # <<>>

----------------------------------------------------------------------------
(* Properties of the object store *)

ObjectOps == {"PutObject", "GetObject", "DeleteObject", "HeadObject"}

\* The files whose presence or content the step changes.
TouchedFiles ==
    {q \in DOMAIN files \cup DOMAIN files' :
        \/ q \notin DOMAIN files
        \/ q \notin DOMAIN files'
        \/ files[q] # files'[q]}

\* C5: for every bucket name and key, put, get, delete and head object either
\* fail with 400 'Invalid key path' before touching the file system, or
\* resolve the key to a path inside the bucket's own directory and touch no
\* file outside it.
C5_KeyResolutionContained ==
    [][s3last'.op \in ObjectOps
         => LET bucket_dir == resolve(_get_bucket_path(s3last'.bucket))
            IN  \/ /\ s3resp' = S3Response(400, "Invalid key path", "")
                   /\ dirs' = dirs
                   /\ files' = files
                \/ /\ IsUnder(_get_object_path(s3last'.bucket, s3last'.key), bucket_dir)
                   /\ \A q \in TouchedFiles : IsUnder(q, bucket_dir)]_vars

\* C6: delete bucket on a bucket that holds at least one object fails with
\* BucketNotEmpty (409) and leaves the bucket and every object as they were.
C6_NonEmptyBucketKept ==
    [][(s3last'.op = "DeleteBucket" /\ ObjectsOf(FS, s3last'.bucket) # {})
         => /\ s3resp' = S3Response(409, "BucketNotEmpty", "")
            /\ dirs' = dirs
            /\ files' = files]_vars

\* Delete bucket was refused for a bucket that holds an object.
C6_Witness ==
    /\ s3last.op = "DeleteBucket"
    /\ s3resp.status = 409
    /\ ObjectsOf(FS, s3last.bucket) # {}

\* C7: once delete object has removed the last object of a bucket (whatever
\* keys were put into it, sub-paths included), delete bucket answers 204 and
\* the bucket is gone.
C7_EmptiedBucketDeletes ==
    [][(/\ s3last'.op = "DeleteBucket"
        /\ s3last.op = "DeleteObject"
        /\ s3last.bucket = s3last'.bucket
        /\ s3resp.status = 204
        /\ IsDir(FS, _get_bucket_path(s3last'.bucket))
        /\ ObjectsOf(FS, s3last'.bucket) = {})
         => /\ s3resp'.status = 204
            /\ _get_bucket_path(s3last'.bucket) \notin dirs']_vars

\* C8: get object of a key returns exactly the body of the latest successful
\* put of that key, when no put or delete of that key came in between
\* (checked for the key TrackedKey of TrackedBucket, among puts and deletes
\* of every other key and bucket).
C8_PutGetRoundTrip ==
    [][(s3last' = S3Req("GetObject", TrackedBucket, TrackedKey) /\ last_body # "")
         => s3resp' = S3Response(200, "", last_body)]_vars

----------------------------------------------------------------------------
(* Provisioning failures *)

\* C11: a Provision of an absent id with an engine outside RDS_ENGINE_MAP
\* fails with InvalidParameterValue (400) and persists no record, with and
\* without a container engine.
C11_UnsupportedEngineRejected ==
    [][\A c \in Clients :
          (/\ Handled(c)
           /\ inflight[c].action = "CreateDBInstance"
           /\ inflight[c].id \notin DOMAIN rds_instances
           /\ inflight[c].engine \notin RDS_ENGINE_MAP)
          => /\ response' = ErrorResponse(400, "InvalidParameterValue")
             /\ rds_instances' = rds_instances]_vars

\* C12: when the container creation of a Provision fails, the response is the
\* internal error InternalFailure (500) and no record of the id is persisted;
\* as long as no Provision of the id has succeeded since, a Describe of the id
\* fails with DBInstanceNotFound and a Provision of it is not rejected as
\* already existing.
C12_FailedProvisionLeavesNoRecord ==
    [][\A c \in Clients :
          Handled(c) =>
            LET req == inflight[c]
            IN  /\ (req.action = "CreateDBInstance" /\ req.id \in failed_ids' \ failed_ids)
                     => /\ response' = ErrorResponse(500, "InternalFailure")
                        /\ rds_instances' = rds_instances
                /\ failed_ids' \cap DOMAIN rds_instances' = {}
                /\ (req.action = "DescribeDBInstances" /\ req.id \in failed_ids)
                     => response' = ErrorResponse(404, "DBInstanceNotFound")
                /\ (req.action = "CreateDBInstance" /\ req.id \in failed_ids)
                     => response'.code # "DBInstanceAlreadyExists"]_vars

\* A Describe of an id whose Provision failed in container creation was
\* answered with not-found.
C12_Witness ==
    /\ handled.action = "DescribeDBInstances"
    /\ handled.id \in failed_ids
    /\ response = ErrorResponse(404, "DBInstanceNotFound")

\* C22: a Delete of an id that is not in the registry fails with
\* DBInstanceNotFound (404) and changes neither the registry nor the
\* allocated-port set; a Delete of an id that is in the registry removes
\* exactly its record, leaves every other record as it was and reports the
\* status deleted.
C22_DeleteRemovesExactlyThatRecord ==
    [][\A c \in Clients :
          (Handled(c) /\ inflight[c].action = "DeleteDBInstance")
          => LET x == inflight[c].id
             IN  /\ x \notin DOMAIN rds_instances
                      => /\ response' = ErrorResponse(404, "DBInstanceNotFound")
                         /\ rds_instances' = rds_instances
                         /\ active_rds_ports' = active_rds_ports
                 /\ x \in DOMAIN rds_instances
                      => /\ rds_instances' = Without(rds_instances, x)
                         /\ Succeeded(response')
                         /\ response'.instances = {InstanceXml(x, "", "deleted", 0)}]_vars

\* C23: a successful Provision gets the lowest port at or above the base
\* 5433 that is not in the allocated-port set when the handler runs, reports
\* and stores that port, and the port is in the set afterwards.
C23_LowestFreePort ==
    [][\A c \in Clients :
          (Handled(c) /\ inflight[c].action = "CreateDBInstance" /\ Succeeded(response'))
          => LET x == inflight[c].id
                 port == PortOf(response')
             IN  /\ port >= DEFAULT_RDS_PORT_START
                 /\ port \notin active_rds_ports
                 /\ \A q \in DEFAULT_RDS_PORT_START..(port - 1) : q \in active_rds_ports
                 /\ rds_instances'[x].port = port
                 /\ active_rds_ports' = active_rds_ports \cup {port}]_vars

\* A Provision after a restart got the base port, below the port of the
\* instance that survived the restart.
C23_Witness ==
    /\ handled.action = "CreateDBInstance"
    /\ Succeeded(response)
    /\ PortOf(response) = DEFAULT_RDS_PORT_START
    /\ \E i \in survivors \cap DOMAIN rds_instances :
          rds_instances[i].port = DEFAULT_RDS_PORT_START + 1

\* C25: a Provision that fails, for whatever reason, leaves the
\* allocated-port set as it was, so that in every state the busy ports are
\* exactly the ports of the persisted instances.
C25_FailedProvisionKeepsPorts ==
    /\ [][\A c \in Clients :
            (/\ Handled(c)
             /\ inflight[c].action = "CreateDBInstance"
             /\ ~Succeeded(response'))
            => active_rds_ports' = active_rds_ports]_vars
    /\ [](active_rds_ports = PortsOfRegistry(rds_instances))

\* C32: in every state the port of every instance of the registry is in the
\* allocated-port set and is at or above the base port 5433; a Describe, and
\* a Delete that fails, change neither the registry nor the allocated-port
\* set.
C32_RegistryPortsAllocated ==
    /\ [](\A i \in DOMAIN rds_instances :
            /\ rds_instances[i].port \in active_rds_ports
            /\ rds_instances[i].port >= DEFAULT_RDS_PORT_START)
    /\ [][\A c \in Clients :
            (/\ Handled(c)
             /\ \/ inflight[c].action = "DescribeDBInstances"
                \/ /\ inflight[c].action = "DeleteDBInstance"
                   /\ ~Succeeded(response'))
            => /\ rds_instances' = rds_instances
               /\ active_rds_ports' = active_rds_ports]_vars

\* A Delete of an instance that is present has failed, after a restart, and
\* the instance is still in the registry with its port allocated.
C32_Witness ==
    /\ handled.action = "DeleteDBInstance"
    /\ response = ErrorResponse(500, "InternalError")
    /\ handled.id \in survivors \cap DOMAIN rds_instances
    /\ rds_instances[handled.id].port \in active_rds_ports
    /\ rds_instances[handled.id].port > DEFAULT_RDS_PORT_START

----------------------------------------------------------------------------
(* Restarts *)

\* C13: a restart (the one step that neither sends nor answers a request)
\* keeps the registry exactly and rebuilds the allocated-port set so that it
\* holds the port of every persisted instance; no Provision after it gets the
\* port of an instance that survived it.
C13_RestartKeepsRegistryAndPorts ==
    [][/\ inflight' = inflight
            => /\ rds_instances' = rds_instances
               /\ \A i \in DOMAIN rds_instances :
                     rds_instances[i].port \in active_rds_ports'
       /\ \A c \in Clients :
            (/\ Handled(c)
             /\ inflight[c].action = "CreateDBInstance"
             /\ Succeeded(response'))
            => \A i \in survivors \cap DOMAIN rds_instances :
                  rds_instances[i].port # PortOf(response')]_vars

\* After a restart that an instance survived, a Provision of another id
\* succeeded.
C13_Witness ==
    /\ handled.action = "CreateDBInstance"
    /\ Succeeded(response)
    /\ survivors # {}
    /\ handled.id \in DOMAIN rds_instances \ survivors

----------------------------------------------------------------------------
(* Properties of the router *)

\* C14: a request to /health, whatever its method, goes to the health
\* handler; none is served as a bucket operation, and no bucket named health
\* is ever created, listed or deleted.
C14_HealthAnyMethod ==
    /\ http_req.path = <<"health">> => http_route = "health"
    /\ s3last.bucket # <<"health">>
    /\ ~Exists(FS, _get_bucket_path(<<"health">>))

\* The class of a request by the rules 1 to 6, the first that applies (the
\* status payload of GET / counts as health).
ClassByRules(req) ==
    IF req.path = <<"health">> THEN "health"
    ELSE IF /\ Len(req.path) = 3 /\ req.path[1] = "model" /\ req.path[2] # ""
            /\ req.path[3] = "invoke" /\ req.method = "POST"
    THEN "inference-op"
    ELSE IF req.path = <<>> /\ req.method = "GET"
    THEN IF req.sdk THEN "storage-bucket-op" ELSE "health"
    ELSE IF req.path = <<>> /\ req.method = "POST" /\ req.form /\ req.action # NoAction
    THEN "database-op"
    ELSE IF Len(req.path) = 1 /\ req.path[1] # "" /\ req.method \in {"PUT", "GET", "DELETE"}
    THEN "storage-bucket-op"
    ELSE IF /\ Len(req.path) >= 2 /\ req.path[1] # ""
            /\ req.method \in {"PUT", "GET", "DELETE", "HEAD"}
    THEN "storage-object-op"
    ELSE "not-found"

\* The class of a request by the handler that served it.
ClassOf(handler, req) ==
    CASE handler = "health" -> "health"
      [] handler = "invoke_model" -> "inference-op"
      [] handler = "root_get" -> IF req.sdk THEN "storage-bucket-op" ELSE "health"
      [] handler = "root_post" ->
             IF req.form /\ req.action # NoAction THEN "database-op" ELSE "not-found"
      [] handler \in {"s3_create_bucket", "s3_delete_bucket", "s3_list_objects"} ->
             "storage-bucket-op"
      [] handler \in {"s3_put_object", "s3_get_object", "s3_delete_object",
                      "s3_head_object"} -> "storage-object-op"
      [] OTHER -> "not-found"

\* C15: every request is served as the one class that the first applicable
\* rule of 1 to 6 gives it; POST /model/{id}/invoke is an inference-op and
\* POST / with a form-encoded Action a database-op, never a storage
\* operation.
C15_ClassifiedByFirstRule ==
    http_req # NoHttpReq => ClassOf(http_route, http_req) = ClassByRules(http_req)

\* C28: for the names health, model and favicon.ico a GET of /name always
\* answers 404 "Not a bucket", whether or not the bucket exists, while PUT and
\* DELETE of /name and the object operations below it are carried out as
\* storage operations; so such a bucket is never listed.
C28_ReservedNamesNotListed ==
    (http_req # NoHttpReq /\ Head(http_req.path) \in ReservedNames /\ AllIdle)
    => LET one == Len(http_req.path) = 1
           m == http_req.method
       IN  /\ (one /\ m = "GET")
                => /\ http_route = "s3_list_objects"
                   /\ s3resp = S3Response(404, "Not a bucket", "")
           /\ (one /\ m = "PUT") => http_route = "s3_create_bucket"
           /\ (one /\ m = "DELETE") => http_route = "s3_delete_bucket"
           /\ (~one /\ m = "PUT") => http_route = "s3_put_object"
           /\ (~one /\ m = "GET") => http_route = "s3_get_object"
           /\ (~one /\ m = "DELETE") => http_route = "s3_delete_object"
           /\ s3list = NoListing

\* C28 amended: for the names model and favicon.ico a GET of /name always
\* answers 404 "Not a bucket", whether or not the bucket exists; GET /health
\* goes to the health handler and not to list objects; for all three names
\* PUT and DELETE of /name and the object operations below it are carried out
\* as storage operations on the bucket of that name; so such a bucket can be
\* created and filled and is never listed.
C28_ReservedNamesNotListed_amended ==
    (http_req # NoHttpReq /\ Head(http_req.path) \in ReservedNames /\ AllIdle)
    => LET one == Len(http_req.path) = 1
           m == http_req.method
           name == <<Head(http_req.path)>>
           storage == /\ s3last.bucket = name
                      /\ s3last.key = Tail(http_req.path)
                      /\ s3resp.code # "Not a bucket"
       IN  /\ (one /\ m = "GET" /\ name # <<"health">>)
                => /\ http_route = "s3_list_objects"
                   /\ s3resp = S3Response(404, "Not a bucket", "")
           /\ (one /\ m = "GET" /\ name = <<"health">>) => http_route = "health"
           /\ (one /\ m = "PUT")
                => /\ http_route = "s3_create_bucket" /\ storage
                   /\ s3resp.status = 200 => IsDir(FS, _get_bucket_path(name))
           /\ (one /\ m = "DELETE")
                => /\ http_route = "s3_delete_bucket" /\ storage
                   /\ s3resp.status = 204 => ~Exists(FS, _get_bucket_path(name))
           /\ (~one /\ m = "PUT")
                => /\ http_route = "s3_put_object" /\ storage
                   /\ s3resp.status = 200
                        => IsFile(FS, _get_object_path(name, Tail(http_req.path)))
           /\ (~one /\ m = "GET") => http_route = "s3_get_object" /\ storage
           /\ (~one /\ m = "DELETE") => http_route = "s3_delete_object" /\ storage
           /\ s3list = NoListing

\* The bucket model holds the object x, and GET /model was answered 404 "Not
\* a bucket".
C28_Witness ==
    /\ http_req.method = "GET"
    /\ http_req.path = <<"model">>
    /\ http_route = "s3_list_objects"
    /\ s3resp = S3Response(404, "Not a bucket", "")
    /\ IsFile(FS, _get_object_path(<<"model">>, <<"x">>))

\* C16: POST / with a form-encoded Action goes to provision, describe or
\* delete for CreateDBInstance, DescribeDBInstances and DeleteDBInstance (the
\* answer is one of that handler's, and only Create adds and only Delete
\* removes the record of its id); any other Action is answered with the error
\* InvalidAction, status 400, and changes neither the registry nor the
\* allocated-port set; without a form-encoded Action the answer is 404.
C16_ActionDispatch ==
    [][\A c \in Clients :
          Handled(c) =>
            LET req == inflight[c]
                kept == /\ rds_instances' = rds_instances
                        /\ active_rds_ports' = active_rds_ports
            IN  /\ req.action = "CreateDBInstance"
                     => /\ response'.code \in {"CreateDBInstanceResponse",
                                               "DBInstanceAlreadyExists",
                                               "InvalidParameterValue",
                                               "InternalFailure", "InternalError"}
                        /\ Succeeded(response')
                             => DOMAIN rds_instances' = DOMAIN rds_instances \cup {req.id}
                        /\ ~Succeeded(response') => rds_instances' = rds_instances
                /\ req.action = "DescribeDBInstances"
                     => /\ response'.code \in {"DescribeDBInstancesResponse",
                                               "DBInstanceNotFound"}
                        /\ kept
                /\ req.action = "DeleteDBInstance"
                     => /\ response'.code \in {"DeleteDBInstanceResponse",
                                               "DBInstanceNotFound", "InternalError"}
                        /\ Succeeded(response')
                             => DOMAIN rds_instances' = DOMAIN rds_instances \ {req.id}
                        /\ ~Succeeded(response') => rds_instances' = rds_instances
                /\ req.action \notin {NoAction, "CreateDBInstance", "DescribeDBInstances",
                                      "DeleteDBInstance"}
                     => /\ response' = ErrorResponse(400, "InvalidAction")
                        /\ kept
                /\ req.action = NoAction
                     => /\ response'.status = 404
                        /\ kept]_vars

\* An Action that is none of the three was answered with InvalidAction while
\* an instance exists.
C16_Witness ==
    /\ handled.action = "RebootDBInstance"
    /\ response = ErrorResponse(400, "InvalidAction")
    /\ rds_instances # <<>>

----------------------------------------------------------------------------
(* Idempotent removal *)

\* C17: delete object with a key that passes the containment check answers
\* 204 whether or not there is an object at the key; after it get and head of
\* the key answer 404, and the same delete once more gives the same answer
\* and leaves the state as it is.
C17_DeleteObjectIdempotent ==
    [][(/\ s3last'.op = "DeleteObject"
        /\ _get_object_path(s3last'.bucket, s3last'.key) # InvalidKeyPath)
         => LET after == [dirs |-> dirs', files |-> files']
                again == s3_delete_object(s3last'.bucket, s3last'.key, after)
            IN  /\ s3resp' = S3Response(204, "", "")
                /\ s3_get_object(s3last'.bucket, s3last'.key, after).status = 404
                /\ s3_head_object(s3last'.bucket, s3last'.key, after).status = 404
                /\ again.resp = s3resp'
                /\ again.fs = after]_vars

----------------------------------------------------------------------------
(* Properties of the inference proxy *)

\* C18: an inference request body is dispatched by the presence of its
\* top-level fields: with "messages" the call goes to the chat endpoint, with
\* "inputText" or "prompt" (and no "messages") to the completion endpoint, and
\* a body that is valid JSON with none of the three fields is answered 400
\* (unsupported format) with no backend call.
C18_DispatchByFieldPresence ==
    \A c \in Clients :
       LET body == inf_req[c].body
           known == body.kind = "object" /\ body.fields \cap DialectFields # {}
       IN  /\ (body.kind = "object" /\ "messages" \in body.fields)
                 => (inf_calls[c] = 1 /\ inf_req[c].url = OLLAMA_CHAT_URL)
           /\ (known /\ "messages" \notin body.fields)
                 => (inf_calls[c] = 1 /\ inf_req[c].url = OLLAMA_GENERATE_URL)
           /\ (body.kind \in {"object", "scalar"} /\ ~known)
                 => /\ inf_calls[c] = 0
                    /\ inf_resp[c] =
                          InfResponse(400, "error", "Unsupported Bedrock request format.")

\* The outcomes of a backend call that are failures of the call: a reply with
\* a non-success status, a transport failure, the expiry of the timeout.
FailureOutcomes == {"status", "transport", "timeout"}

\* C19: an inference request of any dialect whose backend call ends with a
\* non-success status, a transport failure or the expiry of the timeout is
\* answered 502 with the backend's error text (alone or after the prefix
\* "Ollama error: "); and, the backend call being fair, every accepted
\* request eventually has exactly one response, and never more than one.
C19_BackendFailureAnswered502 ==
    /\ [][\A c \in Clients :
            (/\ inf_pc[c] = "waiting"
             /\ inf_req'[c] # inf_req[c]
             /\ inf_req'[c].outcome \in FailureOutcomes)
              => /\ inf_resp'[c].status = 502
                 /\ inf_resp'[c].text \in
                       {OutcomeText(inf_req'[c].outcome),
                        "Ollama error: " \o OutcomeText(inf_req'[c].outcome)}]_vars
    /\ [](\A c \in Clients : inf_sent[c] <= 1)
    /\ \A c \in Clients :
          (inf_pc[c] = "waiting") ~> (inf_pc[c] = "idle" /\ inf_sent[c] = 1)

\* A request whose backend call ran into the timeout has been answered 502.
C19_Witness ==
    \E c \in Clients :
       /\ inf_pc[c] = "idle"
       /\ inf_req[c].handler = "handle_titan_style"
       /\ inf_req[c].outcome = "timeout"
       /\ inf_resp[c] = InfResponse(502, "error", OutcomeText("timeout"))
       /\ inf_sent[c] = 1

\* C20: nothing is retried: an inference request makes at most one backend
\* call, and a failure of that call is reported once, on the response to the
\* request that made the call and on no other.
C20_NoRetry ==
    /\ [](\A c \in Clients :
            /\ inf_calls[c] <= 1
            /\ (inf_pc[c] = "idle" /\ inf_req[c].outcome \in FailureOutcomes)
                  => /\ inf_calls[c] = 1
                     /\ inf_sent[c] = 1
                     /\ inf_resp[c].kind = "error")
    /\ [][\A c \in Clients :
            (inf_pc[c] = "waiting" /\ inf_req'[c] # inf_req[c])
              => /\ inf_pc'[c] = "idle"
                 /\ inf_calls'[c] = inf_calls[c]
                 /\ inf_sent'[c] = inf_sent[c] + 1
                 /\ \A d \in Clients \ {c} :
                       inf_resp'[d] = inf_resp[d] /\ inf_sent'[d] = inf_sent[d]]_vars

\* A request whose one backend call failed in transport has its one response,
\* while the other client's request is still waiting.
C20_Witness ==
    \E c \in Clients, d \in Clients :
       /\ c # d
       /\ inf_pc[c] = "idle"
       /\ inf_req[c].outcome = "transport"
       /\ inf_calls[c] = 1
       /\ inf_sent[c] = 1
       /\ inf_resp[c].status = 502
       /\ inf_pc[d] = "waiting"

----------------------------------------------------------------------------
(* Properties of list objects *)

\* The string of a key: its segments joined by "/".
KeyStr(key) == IF key = <<>> THEN <<>> ELSE Tail(StrOf(key))

\* The keys of the objects stored in a bucket, relative to its directory.
StoredKeys(fs, bucket_name) ==
    {relative_to(q, _get_bucket_path(bucket_name)) : q \in ObjectsOf(fs, bucket_name)}

\* C21: list objects with a prefix lists exactly the keys of the bucket's
\* objects that start with the prefix, and without a prefix lists all of
\* them.
C21_PrefixFilter ==
    [][(s3last'.op = "ListObjects" /\ s3resp'.status = 200)
         => BagToSet(s3list'.Keys) =
               {k \in StoredKeys(FS, s3last'.bucket) :
                   StartsWith(KeyStr(k), KeyStr(s3last'.key))}]_vars

\* C27: list objects (without prefix) on a bucket that exists reports, each
\* once and with IsTruncated false, exactly the keys for which get object on
\* that bucket returns content, and KeyCount is the number of keys reported;
\* list objects on a bucket that does not exist fails with NoSuchBucket (404).
C27_ListingMatchesGet ==
    [][(s3last'.op = "ListObjects" /\ s3last'.key = NoPrefix)
         => LET b == s3last'.bucket
                reported == BagToSet(s3list'.Keys)
            IN  IF Exists(FS, _get_bucket_path(b))
                THEN /\ s3resp'.status = 200
                     /\ \A k \in reported \cup ListKeys :
                           k \in reported <=> s3_get_object(b, k, FS).status = 200
                     /\ \A k \in reported : CopiesIn(k, s3list'.Keys) = 1
                     /\ s3list'.IsTruncated = "false"
                     /\ s3list'.KeyCount = BagCardinality(s3list'.Keys)
                ELSE s3resp' = S3Response(404, "NoSuchBucket", "")]_vars

----------------------------------------------------------------------------
(* Bucket paths *)

\* The path is a direct child of the storage root.
DirectChild(p) == Len(p) = Len(S3_ROOT_DIR) + 1 /\ Parent(p) = S3_ROOT_DIR

\* C24: whenever a bucket or object operation accepts a bucket name (answers
\* 200 or 204), the bucket's path resolves to a direct child of the storage
\* root, never to the root itself or to a directory outside it.
C24_BucketIsChildOfRoot ==
    [][(s3last'.op # "none" /\ s3resp'.status \in {200, 204})
         => DirectChild(resolve(_get_bucket_path(s3last'.bucket)))]_vars

\* C31: create bucket answers 200 whether or not the bucket already exists,
\* leaves every stored object as it was, and the bucket is among the names of
\* a list buckets issued right after it.
C31_CreateBucketIdempotent ==
    [][s3last'.op = "CreateBucket"
         => /\ s3resp'.status = 200
            /\ files' = files
            /\ root_get(TRUE, [dirs |-> dirs', files |-> files']).resp.status = 200
            /\ basename(s3last'.bucket)
                  \in root_get(TRUE, [dirs |-> dirs', files |-> files']).buckets]_vars

----------------------------------------------------------------------------
(* Put object against delete bucket *)

\* C26: however put object and delete bucket requests on one bucket
\* interleave, a bucket is removed only while it is empty: a delete bucket
\* that answers 204 removes a directory without entries and no stored
\* object, and a put object that answers 200 leaves its object stored, with
\* the body it was sent.
C26_PutAgainstDeleteBucket ==
    [][/\ (s3last'.op = "DeleteBucket" /\ s3resp'.status = 204)
            => /\ Children(FS, _get_bucket_path(s3last'.bucket)) = {}
               /\ files' = files
       /\ \A c \in Clients :
            (putting[c] # NoPut /\ putting'[c] = NoPut /\ s3resp'.status = 200)
            => /\ putting[c].path \in DOMAIN files'
               /\ IsDir([dirs |-> dirs', files |-> files'],
                        _get_bucket_path(putting[c].bucket))
       /\ \A q \in DOMAIN files :
            q \notin DOMAIN files' => s3last'.op = "DeleteObject"]_vars

\* A put object whose bucket was deleted while it awaited its body was
\* answered with an error, and the bucket is gone.
C26_Witness ==
    /\ s3last.op = "PutObject"
    /\ s3resp = S3Response(500, "InternalError", "")
    /\ ~Exists(FS, _get_bucket_path(s3last.bucket))
    /\ S3Idle

----------------------------------------------------------------------------
(* Properties of the messages dialect *)

\* Client c has the 200 response to a request of the messages dialect.
ConverseAnswered(c) ==
    /\ inf_pc[c] = "idle"
    /\ inf_req[c].handler = "handle_converse_style"
    /\ inf_resp[c].status = 200

\* C29: in the messages dialect the text of the response is the backend's
\* content when there is no reasoning, the reasoning in angle brackets
\* followed by the content when there are both, and the reasoning in angle
\* brackets alone when there is no content.
C29_ReasoningCombined ==
    \A c \in Clients :
       ConverseAnswered(c) =>
          LET content == Get(inf_req[c].reply.content, "")
              reasoning == Get(inf_req[c].reply.thinking, "")
          IN  inf_resp[c].text = IF reasoning = "" THEN content
                                 ELSE "<" \o reasoning \o ">" \o content

\* C29 amended: the text is the content when there is no reasoning, and
\* otherwise the reasoning in angle brackets, a line break, and the content
\* (nothing after the line break when there is no content).
C29_ReasoningCombined_amended ==
    \A c \in Clients :
       ConverseAnswered(c) =>
          LET content == Get(inf_req[c].reply.content, "")
              reasoning == Get(inf_req[c].reply.thinking, "")
          IN  inf_resp[c].text = IF reasoning = "" THEN content
                                 ELSE "<" \o reasoning \o ">" \o "\n" \o content

\* A reply with reasoning and without content has been answered.
C29_Witness ==
    \E c \in Clients :
       /\ ConverseAnswered(c)
       /\ inf_req[c].reply.thinking = <<"hmm">>
       /\ inf_req[c].reply.content = Absent
       /\ inf_resp[c].text = "<hmm>\n"

\* C30: every 200 response to a request of the messages dialect has the text
\* in output.message and both usage fields, inputTokens and outputTokens, as
\* numbers: the backend's prompt and generation counts where the backend
\* reports them, 0 where it does not.
C30_UsageAlwaysPresent ==
    \A c \in Clients :
       ConverseAnswered(c) =>
          /\ inf_resp[c].kind = "output.message"
          /\ inf_resp[c].text \in STRING
          /\ inf_resp[c].inputTokens # Absent
          /\ inf_resp[c].outputTokens # Absent
          /\ inf_resp[c].inputTokens[1] \in Nat
          /\ inf_resp[c].outputTokens[1] \in Nat
          /\ inf_resp[c].inputTokens[1] = Get(inf_req[c].reply.prompt_eval_count, 0)
          /\ inf_resp[c].outputTokens[1] = Get(inf_req[c].reply.eval_count, 0)

\* A reply that reports the generation count and not the prompt count has
\* been answered with inputTokens 0.
C30_Witness ==
    \E c \in Clients :
       /\ ConverseAnswered(c)
       /\ inf_req[c].reply.prompt_eval_count = Absent
       /\ inf_req[c].reply.eval_count = <<5>>
       /\ inf_resp[c].inputTokens = <<0>>
       /\ inf_resp[c].outputTokens = <<5>>
====
